---- MODULE Spec2Model ----
(***************************************************************************)
(* BridgeCommands (src/src/bridge-commands.cpp): a stack machine of        *)
(* command collections, authored through add_* calls and then driven one   *)
(* step per timer tick by an external event loop.                          *)
(*                                                                         *)
(* Objects that the code reaches through std::shared_ptr and mutates       *)
(* (collections and repeat loops) live in `heap` and are named by their    *)
(* position; m_command_stack holds such names.  Execute, delay and         *)
(* wait-exit commands are never mutated and are kept as values in the      *)
(* queues.  Every command carries the index of the add_* call that made    *)
(* it (`idx`), which the code does not have: it only names the command in  *)
(* the properties.                                                         *)
(***************************************************************************)
EXTENDS Integers, Sequences, FiniteSets, TLC

\* ------------------------------------------------------------------ bounds
\* longest call sequence of the exhaustively enumerated callers
MaxCalls == 4
\* largest repeat count of the exhaustively enumerated callers
MaxCount == 2
\* how late, at most, the event loop wakes up for a timer that is due
MaxLate == 1
\* how often, at most, one on_exit registration is signalled (SpecDupExit)
MaxSignals == 2

\* ------------------------------------------------------- program constants
kEventLoopTimerDone == -1

\* values a callback may return (0 is "stop")
RetVals == {0, 1, 2}

\* ------------------------------------------------------------ the callers
ExecCall(cb) == [op |-> "exec", cb |-> cb, d |-> 0, n |-> 0]
DelayCall(d) == [op |-> "delay", cb |-> "", d |-> d, n |-> 0]
RepeatStartCall(d, n) == [op |-> "rstart", cb |-> "", d |-> d, n |-> n]
RepeatEndCall == [op |-> "rend", cb |-> "", d |-> 0, n |-> 0]
WaitExitCall == [op |-> "wait", cb |-> "", d |-> 0, n |-> 0]

\* the calls of the enumerated callers
Alphabet ==
  {ExecCall("A"), DelayCall(2), RepeatEndCall, WaitExitCall}
    \cup {RepeatStartCall(1, n) : n \in 0..MaxCount}

\* [Execute(A), RepeatStart(1000,2){ Delay(500), Execute(B) }RepeatEnd, Execute(C)]
ScenarioRepeat ==
  << ExecCall("A"), RepeatStartCall(1000, 2), DelayCall(500), ExecCall("B"),
     RepeatEndCall, ExecCall("C") >>

\* [Execute(A), Execute(C)]
ScenarioHalt == << ExecCall("A"), ExecCall("C") >>

\* a repeat block nested in a repeat block, with one callback in the inner body
ScenarioNested ==
  << RepeatStartCall(1, 2), RepeatStartCall(1, 2), ExecCall("A"),
     RepeatEndCall, RepeatEndCall >>

Scripts ==
  UNION {[1..k -> Alphabet] : k \in 0..MaxCalls}
    \cup {ScenarioRepeat, ScenarioHalt, ScenarioNested}

\* ------------------------------------------------------------- the objects
\* commands held in a queue
ExecCmd(idx, cb) == [op |-> "exec", idx |-> idx, cb |-> cb, d |-> 0, ref |-> 0]
DelayCmd(idx, d) == [op |-> "delay", idx |-> idx, cb |-> "", d |-> d, ref |-> 0]
WaitCmd(idx) == [op |-> "wait", idx |-> idx, cb |-> "", d |-> 0, ref |-> 0]
RepeatCmd(idx, id) == [op |-> "repeat", idx |-> idx, cb |-> "", d |-> 0, ref |-> id]

\* heap objects: BridgeCommandCollection, and BridgeCommandRepeat which is one
\* with a counter and a delay
Collection(q, idx) ==
  [kind |-> "collection", queue |-> q, times |-> 0, delay |-> 0, idx |-> idx]
Repeat(idx, d, n) ==
  [kind |-> "repeat", queue |-> << >>, times |-> n, delay |-> d, idx |-> idx]

Top(s) == s[Len(s)]
Pop(s) == SubSeq(s, 1, Len(s) - 1)

\* BridgeCommandCollection::add_command: m_command_queue.push(command)
add_command(h, id, c) == [h EXCEPT ![id].queue = Append(@, c)]

\* the orchestrator's own state is the record o = [heap, stack, rv, err]
\* add_execute
add_execute(o, idx, cb) ==
  [o EXCEPT !.heap = add_command(o.heap, Top(o.stack), ExecCmd(idx, cb))]

\* add_delay
add_delay(o, idx, d) ==
  [o EXCEPT !.heap = add_command(o.heap, Top(o.stack), DelayCmd(idx, d))]

\* add_wait_exit
add_wait_exit(o, idx) ==
  [o EXCEPT !.heap = add_command(o.heap, Top(o.stack), WaitCmd(idx))]

\* add_repeat_start, as a plausible slip: the loop is appended but not pushed
add_repeat_start_no_push(o, idx, d, n) ==
  LET id == Len(o.heap) + 1
  IN [o EXCEPT
        !.heap = Append(add_command(o.heap, Top(o.stack), RepeatCmd(idx, id)),
                        Repeat(idx, d, n))]

\* add_repeat_start: the loop is appended to the top frame and pushed
add_repeat_start(o, idx, d, n) ==
  LET id == Len(o.heap) + 1
  IN [o EXCEPT
        !.heap = Append(add_command(o.heap, Top(o.stack), RepeatCmd(idx, id)),
                        Repeat(idx, d, n)),
        !.stack = Append(o.stack, id)]

\* add_repeat_end, as a plausible slip: the guard tests for an empty stack
add_repeat_end_guard_off_by_one(o) ==
  IF Len(o.stack) < 1
    THEN [o EXCEPT !.err = "UnmatchedLoop"]
    ELSE [o EXCEPT !.stack = Pop(o.stack)]

\* add_repeat_end, as a plausible slip: the frame is popped before the guard
\* is tested
add_repeat_end_pops_then_throws(o) ==
  IF Len(o.stack) <= 1
    THEN [o EXCEPT !.stack = Pop(o.stack), !.err = "UnmatchedLoop"]
    ELSE [o EXCEPT !.stack = Pop(o.stack)]

\* add_repeat_end
add_repeat_end(o) ==
  IF Len(o.stack) <= 1
    THEN [o EXCEPT !.err = "UnmatchedLoop"]
    ELSE [o EXCEPT !.stack = Pop(o.stack)]


\* ------------------------------------------------------ command execution
\* what one advance of a command reports: the orchestrator after it, the value
\* handed back to the event loop, whether an on_exit callback was registered,
\* and a description of the step taken
Outcome(o, res, reg, op, idx, cb, val) ==
  [o |-> o, res |-> res, reg |-> reg,
   ev |-> [op |-> op, idx |-> idx, cb |-> cb, val |-> val]]

\* BridgeCommandExecute::execute, as a plausible slip: the callback's value is
\* stored but the loop is always told to go on
BridgeCommandExecute_execute_always_continue(o, c, v) ==
  Outcome([o EXCEPT !.rv = v], 0, 0, "exec", c.idx, c.cb, v)

\* BridgeCommandExecute::execute, as a plausible slip: the slot gets the
\* continue/stop decision instead of the callback's value
BridgeCommandExecute_execute_stores_flag(o, c, v) ==
  Outcome([o EXCEPT !.rv = IF v # 0 THEN 1 ELSE 0],
          IF v # 0 THEN 0 ELSE kEventLoopTimerDone, 0, "exec", c.idx, c.cb, v)

\* BridgeCommandExecute::execute, as a plausible slip: the test of the
\* callback's value is inverted
BridgeCommandExecute_execute_inverted(o, c, v) ==
  Outcome([o EXCEPT !.rv = v],
          IF v # 0 THEN kEventLoopTimerDone ELSE 0, 0, "exec", c.idx, c.cb, v)

\* BridgeCommandExecute::execute; v is what the callback returns
BridgeCommandExecute_execute(o, c, v) ==
  Outcome([o EXCEPT !.rv = v], IF v # 0 THEN 0 ELSE kEventLoopTimerDone, 0,
          "exec", c.idx, c.cb, v)

\* BridgeCommandDelay::execute
BridgeCommandDelay_execute(o, c) ==
  Outcome(o, c.d, 0, "delay", c.idx, "", c.d)

\* BridgeCommandWaitExit::execute, as a plausible slip: the callback is
\* registered but the timer is told to go on
BridgeCommandWaitExit_execute_keeps_timer(o, c) ==
  Outcome(o, 0, 1, "wait", c.idx, "", 0)

\* BridgeCommandWaitExit::execute
BridgeCommandWaitExit_execute(o, c) ==
  Outcome(o, kEventLoopTimerDone, 1, "wait", c.idx, "", 0)

\* BridgeCommandRepeat::execute, as a plausible slip: the pushed collection is
\* made without the loop's commands
BridgeCommandRepeat_execute_pushes_empty(o, id) ==
  LET rep == o.heap[id]
      h1 == [o.heap EXCEPT ![id].times = @ - 1]
  IN IF rep.times <= 0
       THEN Outcome([o EXCEPT !.heap = h1, !.stack = Pop(o.stack)],
                    rep.delay, 0, "repeat", rep.idx, "", rep.times)
       ELSE Outcome([o EXCEPT !.heap = Append(h1, Collection(<< >>, rep.idx)),
                              !.stack = Append(o.stack, Len(h1) + 1)],
                    rep.delay, 0, "repeat", rep.idx, "", rep.times)

\* BridgeCommandRepeat::execute, as a plausible slip: the exhausted branch
\* returns 0 instead of the loop's delay
BridgeCommandRepeat_execute_exhausted_returns_zero(o, id) ==
  LET rep == o.heap[id]
      h1 == [o.heap EXCEPT ![id].times = @ - 1]
  IN IF rep.times <= 0
       THEN Outcome([o EXCEPT !.heap = h1, !.stack = Pop(o.stack)],
                    0, 0, "repeat", rep.idx, "", rep.times)
       ELSE Outcome([o EXCEPT !.heap = Append(h1, Collection(rep.queue, rep.idx)),
                              !.stack = Append(o.stack, Len(h1) + 1)],
                    rep.delay, 0, "repeat", rep.idx, "", rep.times)

\* BridgeCommandRepeat::execute on the loop object id: the counter is tested
\* and then decremented; the stack's top is popped, or a collection holding a
\* copy of the loop's queue is pushed
BridgeCommandRepeat_execute(o, id) ==
  LET rep == o.heap[id]
      h1 == [o.heap EXCEPT ![id].times = @ - 1]
  IN IF rep.times <= 0
       THEN Outcome([o EXCEPT !.heap = h1, !.stack = Pop(o.stack)],
                    rep.delay, 0, "repeat", rep.idx, "", rep.times)
       ELSE Outcome([o EXCEPT !.heap = Append(h1, Collection(rep.queue, rep.idx)),
                              !.stack = Append(o.stack, Len(h1) + 1)],
                    rep.delay, 0, "repeat", rep.idx, "", rep.times)

\* command->execute(bc): the virtual call on a dequeued command
command_execute(o, c, v) ==
  CASE c.op = "exec" -> BridgeCommandExecute_execute(o, c, v)
    [] c.op = "delay" -> BridgeCommandDelay_execute(o, c)
    [] c.op = "wait" -> BridgeCommandWaitExit_execute(o, c)
    [] c.op = "repeat" -> BridgeCommandRepeat_execute(o, c.ref)

\* BridgeCommandCollection::execute, as a plausible slip: the dequeued command
\* is executed but 0 is returned instead of what it returned
BridgeCommandCollection_execute_drops_result(o, id, v) ==
  IF Len(o.heap[id].queue) = 0
    THEN Outcome([o EXCEPT !.stack = Pop(o.stack)], 0, 0,
                 "pop", o.heap[id].idx, "", 0)
    ELSE [command_execute([o EXCEPT !.heap[id].queue = Tail(@)],
                          Head(o.heap[id].queue), v) EXCEPT !.res = 0]

\* BridgeCommandCollection::execute, as a plausible slip: popping an empty
\* collection reports kEventLoopTimerDone
BridgeCommandCollection_execute_halts_on_pop(o, id, v) ==
  IF Len(o.heap[id].queue) = 0
    THEN Outcome([o EXCEPT !.stack = Pop(o.stack)], kEventLoopTimerDone, 0,
                 "pop", o.heap[id].idx, "", 0)
    ELSE command_execute([o EXCEPT !.heap[id].queue = Tail(@)],
                         Head(o.heap[id].queue), v)

\* BridgeCommandCollection::execute, as a plausible slip: the command taken
\* is the one appended last
BridgeCommandCollection_execute_takes_back(o, id, v) ==
  IF Len(o.heap[id].queue) = 0
    THEN Outcome([o EXCEPT !.stack = Pop(o.stack)], 0, 0,
                 "pop", o.heap[id].idx, "", 0)
    ELSE command_execute([o EXCEPT !.heap[id].queue = Pop(@)],
                         Top(o.heap[id].queue), v)

\* BridgeCommandCollection::execute, as a plausible slip: the front command
\* is executed but left in the queue
BridgeCommandCollection_execute_no_dequeue(o, id, v) ==
  IF Len(o.heap[id].queue) = 0
    THEN Outcome([o EXCEPT !.stack = Pop(o.stack)], 0, 0,
                 "pop", o.heap[id].idx, "", 0)
    ELSE command_execute(o, Head(o.heap[id].queue), v)

\* BridgeCommandCollection::execute on the collection object id
BridgeCommandCollection_execute(o, id, v) ==
  IF Len(o.heap[id].queue) = 0
    THEN Outcome([o EXCEPT !.stack = Pop(o.stack)], 0, 0,
                 "pop", o.heap[id].idx, "", 0)
    ELSE command_execute([o EXCEPT !.heap[id].queue = Tail(@)],
                         Head(o.heap[id].queue), v)

\* the timer callback, as a plausible slip: with the stack empty it returns 0
timer_callback_empty_continues(o, v) ==
  IF Len(o.stack) = 0
    THEN Outcome(o, 0, 0, "done", 0, "", 0)
    ELSE IF o.heap[Top(o.stack)].kind = "repeat"
           THEN BridgeCommandRepeat_execute(o, Top(o.stack))
           ELSE BridgeCommandCollection_execute(o, Top(o.stack), v)

\* the timer callback that queue_next_command registers
timer_callback(o, v) ==
  IF Len(o.stack) = 0
    THEN Outcome(o, kEventLoopTimerDone, 0, "done", 0, "", 0)
    ELSE IF o.heap[Top(o.stack)].kind = "repeat"
           THEN BridgeCommandRepeat_execute(o, Top(o.stack))
           ELSE BridgeCommandCollection_execute(o, Top(o.stack), v)

\* ------------------------------------------------------------ event loop
\* getTimerEvent(cb, delay): one more armed timer, due after delay
getTimerEvent(tm, t, delay) == Append(tm, t + delay)

RemoveAt(s, i) == SubSeq(s, 1, i - 1) \o SubSeq(s, i + 1, Len(s))

\* what the loop does with the value a timer callback returns
timer_result(tm, i, t, res) ==
  IF res = kEventLoopTimerDone THEN RemoveAt(tm, i) ELSE [tm EXCEPT ![i] = t + res]

\* queue_next_command: registers the timer with delay 0 and starts the loop
queue_next_command(tm, t) == getTimerEvent(tm, t, 0)

\* start_bridge without its test of the stack
start_bridge_unchecked(o, tm, t) ==
  [o |-> o, timers |-> queue_next_command(tm, t)]

\* start_bridge, as a plausible slip: the test only rejects open blocks
start_bridge_allows_empty(o, tm, t) ==
  IF Len(o.stack) > 1
    THEN [o |-> [o EXCEPT !.err = "UnmatchedLoop"], timers |-> tm]
    ELSE [o |-> o, timers |-> queue_next_command(tm, t)]

\* start_bridge, up to the point where the loop runs
start_bridge(o, tm, t) ==
  IF Len(o.stack) # 1
    THEN [o |-> [o EXCEPT !.err = "UnmatchedLoop"], timers |-> tm]
    ELSE [o |-> o, timers |-> queue_next_command(tm, t)]

SeqMin(s) == CHOOSE x \in {s[i] : i \in DOMAIN s} : \A j \in DOMAIN s : x <= s[j]

\* ----------------------------------------------- lifetime, deep contents
\* the objects a queue refers to
Refs(q) == {q[i].ref : i \in {j \in DOMAIN q : q[j].op = "repeat"}}

RECURSIVE Reach(_, _, _)
Reach(h, seen, front) ==
  IF front = {} THEN seen
  ELSE LET nxt == (UNION {Refs(h[id].queue) : id \in front}) \ (seen \cup front)
       IN Reach(h, seen \cup front, nxt)

\* the objects still owned by some shared_ptr: those reachable from the stack
Live(h, s) == Reach(h, {}, {s[i] : i \in DOMAIN s})

\* a queue with every loop in it replaced by the loop's state and contents
RECURSIVE DeepQueue(_, _)
DeepQueue(h, q) ==
  [i \in DOMAIN q |->
     IF q[i].op = "repeat"
       THEN [op |-> "repeat", idx |-> q[i].idx, times |-> h[q[i].ref].times,
             delay |-> h[q[i].ref].delay, body |-> DeepQueue(h, h[q[i].ref].queue)]
       ELSE [op |-> q[i].op, idx |-> q[i].idx, times |-> 0,
             delay |-> q[i].d, body |-> << >>]]


\* ------------------------------------------------------------------ state
VARIABLES
  script,       \* the caller: its add_* calls, in order, then start
  pcAuth,       \* the caller's next call
  pc,           \* "authoring", "running" (inside start), "returned", "failed"
  heap,         \* the collections and loops
  stack,        \* m_command_stack
  rv,           \* m_return_value
  err,          \* the exception the caller's last call threw, or "none"
  timers,       \* the event loop's armed timers: when each is due
  now,          \* the event loop's clock
  regs,         \* on_exit registrations: how often each has been signalled
  startResult,  \* what start_bridge returned
  stopped,      \* stop_bridge has been called
  trace,        \* every tick so far: the step it took
  retAt,        \* the length of trace when start_bridge returned
  tmpl          \* per closed loop (by its idx): its deep contents when closed

vars ==
  << script, pcAuth, pc, heap, stack, rv, err, timers, now, regs, startResult,
     stopped, trace, retAt, tmpl >>

O == [heap |-> heap, stack |-> stack, rv |-> rv, err |-> "none"]

SetO(o) ==
  /\ heap' = o.heap
  /\ stack' = o.stack
  /\ rv' = o.rv
  /\ err' = o.err

\* after construction: the root collection is on the stack
Init ==
  /\ script \in Scripts
  /\ pcAuth = 1
  /\ pc = "authoring"
  /\ heap = << Collection(<< >>, 0) >>
  /\ stack = << 1 >>
  /\ rv \in RetVals
  /\ err = "none"
  /\ timers = << >>
  /\ now = 0
  /\ regs = << >>
  /\ startResult = 0
  /\ stopped = FALSE
  /\ trace = << >>
  /\ retAt = 0
  /\ tmpl = << >>

Calling(op) ==
  /\ pc = "authoring"
  /\ pcAuth <= Len(script)
  /\ script[pcAuth].op = op

NoRun == UNCHANGED << script, pc, timers, now, regs, startResult, stopped, trace, retAt >>

AddExecute ==
  /\ Calling("exec")
  /\ SetO(add_execute(O, pcAuth, script[pcAuth].cb))
  /\ pcAuth' = pcAuth + 1
  /\ UNCHANGED tmpl
  /\ NoRun

AddDelay ==
  /\ Calling("delay")
  /\ SetO(add_delay(O, pcAuth, script[pcAuth].d))
  /\ pcAuth' = pcAuth + 1
  /\ UNCHANGED tmpl
  /\ NoRun

AddWaitExit ==
  /\ Calling("wait")
  /\ SetO(add_wait_exit(O, pcAuth))
  /\ pcAuth' = pcAuth + 1
  /\ UNCHANGED tmpl
  /\ NoRun

AddRepeatStart ==
  /\ Calling("rstart")
  /\ SetO(add_repeat_start(O, pcAuth, script[pcAuth].d, script[pcAuth].n))
  /\ pcAuth' = pcAuth + 1
  /\ UNCHANGED tmpl
  /\ NoRun

\* a failed add_repeat_end throws; the caller goes on with its next call
AddRepeatEnd ==
  /\ Calling("rend")
  /\ LET o == add_repeat_end(O)
     IN /\ SetO(o)
        /\ tmpl' = IF Len(o.stack) < Len(stack)
                     THEN (heap[Top(stack)].idx :> DeepQueue(heap, heap[Top(stack)].queue))
                            @@ tmpl
                     ELSE tmpl
  /\ pcAuth' = pcAuth + 1
  /\ NoRun

\* start_bridge: throws, or arms the timer and runs the loop
Start ==
  /\ pc = "authoring"
  /\ pcAuth = Len(script) + 1
  /\ LET r == start_bridge(O, timers, now)
     IN /\ SetO(r.o)
        /\ timers' = r.timers
        /\ pc' = IF r.o.err = "UnmatchedLoop" THEN "failed" ELSE "running"
  /\ UNCHANGED << script, pcAuth, now, regs, startResult, stopped, trace, retAt, tmpl >>

\* the loop stops when no timer is armed, and start_bridge, if it is still
\* waiting for that, returns m_return_value
LoopStops(tm, value, len) ==
  IF tm = << >> /\ pc = "running"
    THEN /\ pc' = "returned"
         /\ startResult' = value
         /\ retAt' = len
    ELSE UNCHANGED << pc, startResult, retAt >>

\* the loop fires timer i, which is due
Tick(i) ==
  /\ timers[i] <= now
  /\ \E v \in RetVals :
       LET r == timer_callback(O, v)
       IN /\ heap' = r.o.heap
          /\ stack' = r.o.stack
          /\ rv' = r.o.rv
          /\ timers' = timer_result(timers, i, now, r.res)
          /\ regs' = IF r.reg = 1 THEN Append(regs, 0) ELSE regs
          /\ trace' = Append(trace,
                             [op |-> r.ev.op, idx |-> r.ev.idx, cb |-> r.ev.cb,
                              val |-> r.ev.val, res |-> r.res, at |-> now,
                              frame |-> IF stack = << >> THEN 0 ELSE Top(stack)])
          /\ LoopStops(timers', r.o.rv, Len(trace) + 1)
  /\ UNCHANGED << script, pcAuth, err, now, stopped, tmpl >>

\* no timer is due: the loop sleeps until the earliest one is, or a little longer
AdvanceClock ==
  /\ timers # << >>
  /\ \A i \in DOMAIN timers : timers[i] > now
  /\ \E late \in 0..MaxLate : now' = SeqMin(timers) + late
  /\ UNCHANGED << script, pcAuth, pc, heap, stack, rv, err, timers, regs,
                  startResult, stopped, trace, retAt, tmpl >>

\* the on_exit callback that BridgeCommandWaitExit::execute registered
on_exit_callback(tm, t) == queue_next_command(tm, t)

\* the lifecycle collaborator signals exit to registration i, once
ExitSignal(i) ==
  /\ regs[i] = 0
  /\ regs' = [regs EXCEPT ![i] = 1]
  /\ timers' = on_exit_callback(timers, now)
  /\ UNCHANGED << script, pcAuth, pc, heap, stack, rv, err, now, startResult,
                  stopped, trace, retAt, tmpl >>

\* the lifecycle collaborator signals exit to registration i once more
ExitSignalAgain(i) ==
  /\ regs[i] >= 1
  /\ regs[i] < MaxSignals
  /\ regs' = [regs EXCEPT ![i] = @ + 1]
  /\ timers' = on_exit_callback(timers, now)
  /\ UNCHANGED << script, pcAuth, pc, heap, stack, rv, err, now, startResult,
                  stopped, trace, retAt, tmpl >>

\* stop_bridge while the loop runs: the loop ends with its timers
StopBridge ==
  /\ timers # << >>
  /\ timers' = << >>
  /\ stopped' = TRUE
  /\ LoopStops(<< >>, rv, Len(trace))
  /\ UNCHANGED << script, pcAuth, heap, stack, rv, err, now, regs, trace, tmpl >>

Next ==
  \/ AddExecute
  \/ AddDelay
  \/ AddWaitExit
  \/ AddRepeatStart
  \/ AddRepeatEnd
  \/ Start
  \/ \E i \in DOMAIN timers : Tick(i)
  \/ AdvanceClock
  \/ \E i \in DOMAIN regs : ExitSignal(i)
  \/ StopBridge

Spec == Init /\ [][Next]_vars

\* the same, with an event loop that keeps firing the timers that are armed
FairSpec ==
  /\ Spec
  /\ WF_vars(\E i \in DOMAIN timers : Tick(i))
  /\ WF_vars(AdvanceClock)

\* the caller calls start_bridge again, after an earlier call returned
Restart ==
  /\ pc = "returned"
  /\ LET r == start_bridge(O, timers, now)
     IN /\ SetO(r.o)
        /\ timers' = r.timers
        /\ pc' = IF r.o.err = "UnmatchedLoop" THEN "failed" ELSE "running"
  /\ UNCHANGED << script, pcAuth, now, regs, startResult, stopped, trace, retAt, tmpl >>

\* the same, with a caller that may call start_bridge again
NextRestart ==
  \/ Next
  \/ Restart

SpecRestart == Init /\ [][NextRestart]_vars

\* the same, with a lifecycle collaborator that may signal one registration
\* more than once
NextDupExit ==
  \/ Next
  \/ \E i \in DOMAIN regs : ExitSignalAgain(i)

SpecDupExit == Init /\ [][NextDupExit]_vars


\* ------------------------------------------------- what the caller wrote
\* the repeat blocks (by the index of their add_repeat_start) that are open
\* after the caller's first k calls; a close with no block open opens nothing
RECURSIVE OpenBlocks(_, _)
OpenBlocks(sc, k) ==
  IF k = 0 THEN << >>
  ELSE LET b == OpenBlocks(sc, k - 1)
       IN CASE sc[k].op = "rstart" -> Append(b, k)
            [] sc[k].op = "rend" /\ b # << >> -> Pop(b)
            [] OTHER -> b

Unclosed == Len(OpenBlocks(script, Len(script)))

RECURSIVE Product(_, _)
Product(sc, b) == IF b = << >> THEN 1 ELSE sc[Top(b)].n * Product(sc, Pop(b))

\* how often the bracket structure says call i's step runs
Expected(i) == Product(script, OpenBlocks(script, i - 1))

\* how often call i's callback has been invoked
Invocations(i) ==
  Cardinality({j \in DOMAIN trace : trace[j].op = "exec" /\ trace[j].idx = i})

IsExec(e) == e.op = "exec"

\* the callbacks invoked so far, in order
Invoked == [j \in DOMAIN SelectSeq(trace, IsExec) |-> SelectSeq(trace, IsExec)[j].cb]

AllTrue == \A j \in DOMAIN trace : trace[j].op = "exec" => trace[j].val # 0

\* the run is over: start has returned, nothing is armed or pending, and
\* nobody stopped the loop
RunOver ==
  /\ pc = "returned"
  /\ timers = << >>
  /\ ~stopped
  /\ \A i \in DOMAIN regs : regs[i] # 0

\* ------------------------------------------------------------------ claims
\* C1: in a balanced program whose callbacks all return true, once the run is
\* over every callback authored inside a repeat block has been invoked as often
\* as the counts of its enclosing blocks say (N times for a block of count N,
\* N * M for a block of count N nested in one of count M).
C1_RepeatBodyRunsNTimes ==
  (RunOver /\ AllTrue /\ Unclosed = 0) =>
    \A i \in DOMAIN script :
      (script[i].op = "exec" /\ OpenBlocks(script, i - 1) # << >>) =>
        Invocations(i) = Expected(i)

\* C2: once a callback has returned zero no timer is armed and no callback is
\* invoked after it; for [Execute(A returns false), Execute(C)] the callbacks
\* invoked are exactly A.
C2_ZeroHaltsTheRun ==
  \A j \in DOMAIN trace :
    (trace[j].op = "exec" /\ trace[j].val = 0) =>
      /\ timers = << >>
      /\ \A k \in DOMAIN trace : k > j => trace[k].op # "exec"
      /\ (script = ScenarioHalt /\ j = 1) => Invoked = << "A" >>

\* a callback has returned zero with a step still queued behind it
C2_Witness ==
  /\ \E j \in DOMAIN trace : trace[j].op = "exec" /\ trace[j].val = 0
  /\ stack # << >>
  /\ heap[Top(stack)].queue # << >>

\* C3: start succeeds exactly when no repeat block is left open, and a failed
\* start has thrown UnmatchedLoop with no timer armed, no step taken, no
\* on_exit callback registered and the clock untouched.
C3_StartChecksBalance ==
  /\ pc = "failed" =>
       /\ Unclosed > 0
       /\ err = "UnmatchedLoop"
       /\ timers = << >> /\ trace = << >> /\ regs = << >> /\ now = 0
  /\ pc \in {"running", "returned"} => Unclosed = 0

\* start has failed on a program with a block left open
C3_Witness == pc = "failed" /\ Len(stack) > 1

\* what one add_repeat_end call does, by the blocks the caller has open
C4_RepeatEndStep ==
  (Calling("rend") /\ pcAuth' = pcAuth + 1) =>
    IF OpenBlocks(script, pcAuth - 1) = << >>
      THEN err' = "UnmatchedLoop" /\ stack' = stack /\ heap' = heap
      ELSE /\ err' = "none"
           /\ stack' = Pop(stack)
           /\ heap' = heap
           /\ heap[Top(stack)].kind = "repeat"
           /\ heap[Top(stack)].idx = Top(OpenBlocks(script, pcAuth - 1))

\* C4: add_repeat_end with no block open throws UnmatchedLoop and changes
\* neither the stack nor any frame; with a block open it pops exactly the top
\* frame, which is the most recently opened block, and changes no frame.
C4_RepeatEnd == [][C4_RepeatEndStep]_vars

\* the caller has closed with no block open, and has closed an inner block
C4_Witness ==
  /\ \E k \in 1..(pcAuth - 1) :
       script[k].op = "rend" /\ OpenBlocks(script, k - 1) = << >>
  /\ \E k \in 1..(pcAuth - 1) :
       script[k].op = "rend" /\ OpenBlocks(script, k - 1) # << >>

\* C5: for [Execute(A), RepeatStart(1000,2){ Delay(500), Execute(B) }RepeatEnd,
\* Execute(C)] with every callback returning true, the callbacks invoked over
\* the whole run are A, B, B, C, and each B comes at least 500 after an
\* advance of the delay step.
C5_ScenarioOrder ==
  (script = ScenarioRepeat /\ RunOver /\ AllTrue) =>
    /\ Invoked = << "A", "B", "B", "C" >>
    /\ \A j \in DOMAIN trace :
         (trace[j].op = "exec" /\ trace[j].cb = "B") =>
           \E k \in 1..(j - 1) :
             trace[k].op = "delay" /\ trace[j].at >= trace[k].at + 500


\* the k-th on_exit registration was made by the k-th wait step advanced
WaitEvents == {j \in DOMAIN trace : trace[j].op = "wait"}
RegOf(j) == Cardinality({k \in WaitEvents : k <= j})

Pending == \E i \in DOMAIN regs : regs[i] = 0

\* C6: after a wait step is advanced no step is taken until its registration is
\* signalled, and signalling a registration again arms no second timer.
C6_WaitExitResumesOnce ==
  /\ \A j \in WaitEvents : regs[RegOf(j)] = 0 => j = Len(trace)
  /\ Len(timers) <= 1

\* the steps taken so far: a callback authored right after a delay follows an
\* advance of that delay, no sooner than its duration; a delay reports its
\* duration
C7_DelayThenExecute ==
  \A j \in DOMAIN trace :
    /\ (/\ trace[j].op = "exec"
        /\ trace[j].idx > 1
        /\ script[trace[j].idx - 1].op = "delay") =>
         /\ j > 1
         /\ trace[j - 1].op = "delay"
         /\ trace[j - 1].idx = trace[j].idx - 1
         /\ trace[j].at >= trace[j - 1].at + script[trace[j].idx - 1].d
    /\ trace[j].op = "delay" =>
         /\ trace[j].res = script[trace[j].idx].d
         /\ trace[j].res # kEventLoopTimerDone

\* a tick that advances a delay step
C7_DelayStep ==
  (Len(trace') = Len(trace) + 1 /\ trace'[Len(trace')].op = "delay") =>
    /\ rv' = rv
    /\ stack' = stack
    /\ \E i \in DOMAIN timers :
         timers' = [timers EXCEPT ![i] = now + trace'[Len(trace')].val]

\* C7: a callback authored right after add_delay(d) is invoked only when the
\* step before it was that delay step and at least d has passed since; a delay
\* step reports its duration (never kEventLoopTimerDone), re-arms the timer
\* that far ahead, and changes neither the result slot nor the stack.
C7_Delay == []C7_DelayThenExecute /\ [][C7_DelayStep]_vars

\* a callback has been invoked right after a delay step of positive duration
C7_Witness ==
  \E j \in DOMAIN trace :
    /\ j > 1
    /\ trace[j].op = "exec"
    /\ trace[j - 1].op = "delay"
    /\ trace[j - 1].val > 0
    /\ trace[j - 1].idx = trace[j].idx - 1

HasExec(tr) == \E j \in DOMAIN tr : tr[j].op = "exec"
LastExecVal(tr) == SelectSeq(tr, IsExec)[Len(SelectSeq(tr, IsExec))].val

\* the slot holds what the most recently invoked callback returned
SlotIsLastResult == HasExec(trace) => rv = LastExecVal(trace)

\* C8 as stated: the slot holds what the most recently invoked callback
\* returned, and start has returned what the last callback invoked in the run
\* returned.
C8_StartReturnsLastOfRun ==
  /\ SlotIsLastResult
  /\ (pc = "returned" /\ HasExec(trace)) => startResult = LastExecVal(trace)

\* the slot, and what start has returned: the value of the last callback
\* invoked before it returned
C8_Returned ==
  /\ SlotIsLastResult
  /\ (pc = "returned" /\ HasExec(SubSeq(trace, 1, retAt))) =>
       startResult = LastExecVal(SubSeq(trace, 1, retAt))

\* start returns with no timer armed; a step that invokes no callback leaves
\* the slot alone
C8_Step ==
  /\ (pc = "running" /\ pc' = "returned") => timers' = << >>
  /\ (Len(trace') = Len(trace) + 1 /\ trace'[Len(trace')].op # "exec") => rv' = rv

\* C8 as amended: the slot holds what the most recently invoked callback
\* returned; start has returned what the last callback invoked before it
\* returned had returned; start returns only when no timer is armed; and a
\* step that invokes no callback leaves the slot alone.
C8_ResultSlot == []C8_Returned /\ [][C8_Step]_vars

\* start returned at a wait step, after one callback and before another whose
\* value it therefore did not return
C8_Witness ==
  /\ pc = "returned"
  /\ HasExec(SubSeq(trace, 1, retAt))
  /\ Len(trace) > retAt
  /\ trace[Len(trace)].op = "exec"
  /\ startResult # rv

Active == timers # << >> \/ Pending

\* C9 as stated: after start, the run is active exactly when the stack holds
\* a frame.
C9_ActiveIffStack ==
  pc \in {"running", "returned"} => (Active <=> stack # << >>)

\* C9 as amended: after start, as long as no callback has returned zero and
\* stop_bridge has not been called, a stack that holds a frame means the run
\* is active.
C9_StackImpliesActive ==
  (pc \in {"running", "returned"} /\ AllTrue /\ ~stopped /\ stack # << >>) => Active

\* the run is suspended at a wait step: frames on the stack, no timer armed
C9_Witness ==
  /\ pc = "returned"
  /\ AllTrue
  /\ ~stopped
  /\ stack # << >>
  /\ heap[Top(stack)].queue # << >>
  /\ timers = << >>
  /\ Pending

\* every closed loop that some queue still owns has the deep contents it had
\* when it was closed
C10_TemplateUnchanged ==
  \A id \in Live(heap, stack) :
    (heap[id].kind = "repeat" /\ heap[id].idx \in DOMAIN tmpl) =>
      DeepQueue(heap, heap[id].queue) = tmpl[heap[id].idx]

\* a tick that pushes an iteration pushes the loop's contents as closed
C10_IterationStep ==
  (/\ Len(trace') = Len(trace) + 1
   /\ trace'[Len(trace')].op = "repeat"
   /\ trace'[Len(trace')].val > 0) =>
    /\ Len(stack') = Len(stack) + 1
    /\ trace'[Len(trace')].idx \in DOMAIN tmpl
    /\ DeepQueue(heap', heap'[Top(stack')].queue) = tmpl[trace'[Len(trace')].idx]

Parent(i) ==
  IF OpenBlocks(script, i - 1) = << >> THEN 0 ELSE Top(OpenBlocks(script, i - 1))

\* the calls, in order, that append a step to frame k
FrameCalls(k) ==
  SelectSeq([i \in 1..Len(script) |-> i],
            LAMBDA i : script[i].op # "rend" /\ Parent(i) = k)

\* the steps advanced so far out of the collection object id, in order
Advanced(id) ==
  SelectSeq(trace, LAMBDA e : e.frame = id /\ e.op \notin {"pop", "done"})

\* what the step of an event hands back by its own code
StepResult(e) ==
  CASE e.op = "exec" -> IF e.val # 0 THEN 0 ELSE kEventLoopTimerDone
    [] e.op = "delay" -> script[e.idx].d
    [] e.op = "repeat" -> script[e.idx].d
    [] e.op = "wait" -> kEventLoopTimerDone
    [] OTHER -> e.res

\* C11: the steps advanced out of a collection are, in order, the first of the
\* steps appended to its frame; once authoring is over each appended step is
\* either still queued or has been advanced exactly once; and a tick hands the
\* loop exactly what the delegated step returned.
C11_Fifo ==
  /\ \A id \in DOMAIN heap :
       heap[id].kind = "collection" =>
         /\ Len(Advanced(id)) <= Len(FrameCalls(heap[id].idx))
         /\ \A m \in DOMAIN Advanced(id) :
              Advanced(id)[m].idx = FrameCalls(heap[id].idx)[m]
         /\ pcAuth = Len(script) + 1 =>
              Len(Advanced(id)) + Len(heap[id].queue) = Len(FrameCalls(heap[id].idx))
  /\ \A j \in DOMAIN trace : trace[j].res = StepResult(trace[j])

\* two steps of one iteration of a loop have been advanced
C11_Witness ==
  \E id \in DOMAIN heap : id > 1 /\ heap[id].kind = "collection" /\ Len(Advanced(id)) >= 2

\* C12: at most one timer is armed, and none while an on_exit registration is
\* waiting for its signal: with one timer, and ticks that run to completion,
\* one step is advanced at a time.
C12_OneTimer ==
  /\ Len(timers) <= 1
  /\ Pending => timers = << >>
  /\ Cardinality({i \in DOMAIN regs : regs[i] = 0}) <= 1

\* a run resumed from a wait step has its timer armed again
C12_Witness ==
  /\ Len(timers) = 1
  /\ regs # << >>
  /\ trace # << >>
  /\ trace[Len(trace)].op # "wait"
  /\ \E j \in DOMAIN trace : trace[j].op = "wait"

\* the collections that have been on the stack and are no longer
Popped ==
  {id \in DOMAIN heap :
     /\ heap[id].kind = "collection"
     /\ \A m \in DOMAIN stack : stack[m] # id}

\* C13: a collection leaves the stack only with nothing left queued, and in a
\* balanced program whose callbacks all return true every callback appended to
\* the root, after a repeat block or not, has been invoked once the run is over.
C13_ExhaustedLoopPopsItself ==
  /\ pc \in {"running", "returned"} =>
       \A id \in Popped : heap[id].queue = << >>
  /\ (RunOver /\ AllTrue /\ Unclosed = 0) =>
       \A i \in DOMAIN script :
         (script[i].op = "exec" /\ Parent(i) = 0) => Invocations(i) = 1


\* where call i stands among the calls that append to its frame
PosInFrame(i) ==
  CHOOSE m \in DOMAIN FrameCalls(Parent(i)) : FrameCalls(Parent(i))[m] = i

\* C14: a step is taken after a wait step only once its registration has been
\* signalled, and that step advances the same frame: it is the step appended
\* right after the wait step (or the pop of the frame when there is none); the
\* wait step is advanced once, and every later step of the frame was appended
\* after it.
C14_ResumeAfterWait ==
  \A j \in WaitEvents :
    /\ j < Len(trace) =>
         /\ regs[RegOf(j)] >= 1
         /\ trace[j + 1].frame = trace[j].frame
         /\ IF PosInFrame(trace[j].idx) = Len(FrameCalls(Parent(trace[j].idx)))
              THEN trace[j + 1].op = "pop"
              ELSE /\ trace[j + 1].op \notin {"pop", "done"}
                   /\ trace[j + 1].idx =
                        FrameCalls(Parent(trace[j].idx))[PosInFrame(trace[j].idx) + 1]
    /\ \A k \in DOMAIN trace :
         (k > j /\ trace[k].frame = trace[j].frame /\ trace[k].op \notin {"pop", "done"}) =>
           trace[k].idx > trace[j].idx

\* a run has resumed from a wait step with the callback queued behind it
C14_Witness ==
  \E j \in WaitEvents : j < Len(trace) /\ trace[j + 1].op = "exec"

\* the calls among the first n that append a step to frame k
AppendedTo(k, n) ==
  SelectSeq([i \in 1..n |-> i], LAMBDA i : script[i].op # "rend" /\ Parent(i) = k)

\* the tree that the brackets of the first n calls describe, below frame k
RECURSIVE Tree(_, _)
Tree(k, n) ==
  [m \in DOMAIN AppendedTo(k, n) |->
     LET i == AppendedTo(k, n)[m]
     IN IF script[i].op = "rstart"
          THEN [op |-> "repeat", idx |-> i, times |-> script[i].n,
                delay |-> script[i].d, body |-> Tree(i, n)]
          ELSE [op |-> script[i].op, idx |-> i, times |-> 0,
                delay |-> script[i].d, body |-> << >>]]

\* none of the first n calls closed a block with none open
NoFailedClose(n) ==
  \A k \in 1..n : script[k].op = "rend" => OpenBlocks(script, k - 1) # << >>

\* C15: while the caller has closed no more blocks than it opened, the program
\* under the root is the tree its brackets describe, and the stack holds, above
\* the root, the loops of the blocks still open, innermost on top.
C15_AuthoredTree ==
  (pc = "authoring" /\ NoFailedClose(pcAuth - 1)) =>
    /\ DeepQueue(heap, heap[1].queue) = Tree(0, pcAuth - 1)
    /\ Len(stack) = 1 + Len(OpenBlocks(script, pcAuth - 1))
    /\ \A m \in DOMAIN OpenBlocks(script, pcAuth - 1) :
         /\ heap[stack[m + 1]].kind = "repeat"
         /\ heap[stack[m + 1]].idx = OpenBlocks(script, pcAuth - 1)[m]

\* the caller has appended a step inside a block and one after closing it
C15_Witness ==
  /\ pc = "authoring"
  /\ NoFailedClose(pcAuth - 1)
  /\ \E i \in 1..(pcAuth - 1), k \in 1..(pcAuth - 1) :
       /\ i < k
       /\ script[i].op = "exec" /\ Parent(i) # 0
       /\ script[k].op = "exec" /\ Parent(k) = 0

\* every advance of a loop so far has reported the loop's delay
C16_RepeatResults ==
  \A j \in DOMAIN trace :
    trace[j].op = "repeat" =>
      trace[j].res = script[trace[j].idx].d /\ trace[j].res # kEventLoopTimerDone

\* a tick that advances a loop leaves the slot alone
C16_RepeatStep ==
  (Len(trace') = Len(trace) + 1 /\ trace'[Len(trace')].op = "repeat") => rv' = rv

\* C16: every advance of a loop, whether it pushes an iteration or finds the
\* loop exhausted, reports the loop's per-iteration delay (never
\* kEventLoopTimerDone) and leaves the result slot alone.
C16_Repeat == []C16_RepeatResults /\ [][C16_RepeatStep]_vars

\* one loop has pushed an iteration and one has been found exhausted
C16_Witness ==
  /\ \E j \in DOMAIN trace : trace[j].op = "repeat" /\ trace[j].val > 0
  /\ \E j \in DOMAIN trace : trace[j].op = "repeat" /\ trace[j].val <= 0

\* what one tick does
C17_TickStep ==
  Len(trace') = Len(trace) + 1 =>
    LET e == trace'[Len(trace')]
    IN IF stack = << >>
         THEN /\ e.op = "done"
              /\ e.res = kEventLoopTimerDone
              /\ heap' = heap /\ stack' = stack /\ rv' = rv /\ regs' = regs
         ELSE /\ e.op # "done"
              /\ e.frame = Top(stack)
              /\ IF e.op = "pop"
                   THEN /\ heap[Top(stack)].queue = << >>
                        /\ stack' = Pop(stack)
                        /\ heap' = heap
                   ELSE /\ heap[Top(stack)].queue # << >>
                        /\ Head(heap[Top(stack)].queue).idx = e.idx
                        /\ heap'[Top(stack)].queue = Tail(heap[Top(stack)].queue)
              /\ Len(heap') <= Len(heap) + 1
              /\ \A id \in DOMAIN heap :
                   heap'[id] # heap[id] =>
                     \/ id = Top(stack)
                     \/ e.op = "repeat" /\ heap[id].kind = "repeat" /\ heap[id].idx = e.idx
              /\ e.op # "exec" => rv' = rv

\* C17: a tick that finds the stack empty reports kEventLoopTimerDone and
\* changes nothing; any other tick advances the top frame by exactly one step
\* (it pops it when empty, else dequeues and runs its front step, so at most
\* one callback); the stack is never popped or read while empty.
C17_Tick == [][C17_TickStep]_vars

\* a run resumed from a wait step has ended with a tick on the empty stack
C17_Witness ==
  /\ trace # << >>
  /\ trace[Len(trace)].op = "done"
  /\ WaitEvents # {}


\* the program holds no wait step
NoWait == \A i \in DOMAIN script : script[i].op # "wait"

\* a run of a program without wait steps comes to its end
C18_Terminates == (pc = "running" /\ NoWait) ~> (pc = "returned" /\ timers = << >>)

\* such a run, left to itself with callbacks that return true, ends with the
\* stack empty
C18_EndsEmpty ==
  (pc = "returned" /\ NoWait /\ AllTrue /\ ~stopped) => stack = << >>

\* C18: with an event loop that keeps firing armed timers, the run of a
\* balanced program without wait steps ends after finitely many ticks (the
\* timer is unregistered and start returns); if every callback returned true
\* and nobody stopped the loop, it ends with the stack empty.
C18_Termination == C18_Terminates /\ []C18_EndsEmpty

\* a run of a program with a loop and a callback has ended with the stack empty
C18_Witness ==
  /\ pc = "returned" /\ NoWait /\ AllTrue /\ ~stopped
  /\ stack = << >>
  /\ \E j \in DOMAIN trace : trace[j].op = "repeat" /\ trace[j].val > 0
  /\ \E j \in DOMAIN trace : trace[j].op = "exec"


\* C19: during authoring, a failed add_repeat_end counting for nothing, the
\* stack depth is 1 plus the number of blocks opened and not yet closed; it is
\* at least 1 and the root collection is the bottom frame, so every add_* call
\* has a top frame to append to.
C19_AuthoringDepth ==
  pc = "authoring" =>
    /\ Len(stack) = 1 + Len(OpenBlocks(script, pcAuth - 1))
    /\ Len(stack) >= 1
    /\ stack[1] = 1
    /\ heap[1].kind = "collection"
    /\ heap[Top(stack)].kind \in {"collection", "repeat"}

\* two blocks are open after a close that failed
C19_Witness ==
  /\ pc = "authoring"
  /\ Len(stack) = 3
  /\ ~NoFailedClose(pcAuth - 1)


\* a run has completed: a tick found the stack empty
Completed == \E j \in DOMAIN trace : trace[j].op = "done"

\* after a completed run the stack is empty
C20_EmptyAfterRun == Completed => stack = << >>

\* after a completed run a call to start throws and arms no timer, and no
\* step is executed any more
C20_Step ==
  Completed =>
    /\ (pc = "returned" /\ pc' # pc) =>
         /\ pc' = "failed"
         /\ err' = "UnmatchedLoop"
         /\ timers' = timers
         /\ heap' = heap /\ stack' = stack /\ rv' = rv /\ trace' = trace
    /\ trace' # trace =>
         /\ Len(trace') = Len(trace) + 1
         /\ trace'[Len(trace')].op = "done"
         /\ heap' = heap /\ stack' = stack /\ rv' = rv

\* C20: once a run has completed normally (a tick found the stack empty, the
\* root collection having been popped) the stack stays empty, every later
\* call to start fails with UnmatchedLoop, and no step is executed again.
C20_RunsOnce == []C20_EmptyAfterRun /\ [][C20_Step]_vars

\* start was called again after a run that invoked a callback had completed,
\* and failed
C20_Witness ==
  /\ pc = "failed"
  /\ Completed
  /\ \E j \in DOMAIN trace : trace[j].op = "exec"

====
